---- MODULE Spec2Model ----
(***************************************************************************)
(* SwapsController: the polling / fetch orchestrator of the swaps quote    *)
(* engine, with its timer handle, its poll counter, the in-flight          *)
(* fetchAndSetQuotes activations and the token cache.                      *)
(***************************************************************************)
EXTENDS Integers, Sequences, FiniteSets, TLC

VARIABLES
    state,        \* this.state (SwapsState)
    pollCount,    \* this.pollCount
    handle,       \* this.handle: "undefined", "pending" (timer armed), "spent" (fired or cleared)
    strayTimers,  \* armed timers whose id this.handle no longer holds
    aborted,      \* controller.signal.aborted (module-level AbortController)
    calls,        \* in-flight fetchAndSetQuotes activations, in dispatch order
    mutex,        \* this.mutex: whether it is held, how many acquire() calls wait, and
                  \* whether the holder's fetchTokens call is pending
    now,          \* Date.now()
    hist,         \* history of the run: per-session bookkeeping for the properties
    arg,          \* the arguments of the helper function under call
    ret           \* what the helper function under call has returned or thrown

vars == <<state, pollCount, handle, strayTimers, aborted, calls, mutex, now, hist, arg, ret>>

----------------------------------------------------------------------------
(* Bounds of the model *)

MaxTasks == 2      \* in-flight fetches plus armed timers that the environment may start

(* Program constants *)

pollCountLimit == 3

ETH_SWAPS_TOKEN_ADDRESS == "0x0000000000000000000000000000000000000000"
DEFAULT_ERC20_APPROVE_GAS == "0x1d4c0"
MAX_GAS_LIMIT == 2500000

QUOTES_EXPIRED_ERROR == "quotes-expired"
SWAP_FAILED_ERROR == "swap-failed-error"
ERROR_FETCHING_QUOTES == "error-fetching-quotes"
QUOTES_NOT_AVAILABLE_ERROR == "quotes-not-available"
OFFLINE_FOR_MAINTENANCE == "offline-for-maintenance"
SWAPS_FETCH_ORDER_CONFLICT == "swaps-fetch-order-conflict"

SwapsError ==
    { QUOTES_EXPIRED_ERROR, SWAP_FAILED_ERROR, ERROR_FETCHING_QUOTES,
      QUOTES_NOT_AVAILABLE_ERROR, OFFLINE_FOR_MAINTENANCE, SWAPS_FETCH_ORDER_CONFLICT }

\* JavaScript null and undefined, for the string-valued fields
Null == "null"
Undefined == "undefined"

----------------------------------------------------------------------------
(* Inputs of the environment *)

\* An approval transaction skeleton as the API returns it (no gas yet)
ApprovalSkeleton == [data |-> "0xapprove", gas |-> Undefined]

\* Raw entries of a /trades response. Amounts of ETH and of tokens are counted in halves
\* of 10^-18 (an odd number is an amount that toFixed(18) rounds), amounts of wei and of
\* gas in units. destinationAmount is the decimal-adjusted destination amount (what
\* calcTokenAmount makes of the entry's amount), value is trade.value, fee is the
\* MetaMask fee in percent; gasEstimate and gasEstimateWithRefund are not in the response
RawEntry(agg, hasTrade, hasError, amount, approval) ==
    [ aggregator |-> agg, trade |-> hasTrade, error |-> hasError,
      sourceToken |-> "0xusdc", destinationToken |-> "0xdai",
      sourceAmount |-> 0, destinationAmount |-> amount, value |-> "0x0", fee |-> 0,
      averageGas |-> << 25000 >>, maxGas |-> 30000, estimatedRefund |-> 0,
      gasEstimate |-> Undefined, gasEstimateWithRefund |-> <<>>,
      approvalNeeded |-> IF approval THEN <<ApprovalSkeleton>> ELSE <<>> ]

\* The /trades responses the service may give (a response is a list of raw entries)
TradesResponses ==
    { <<>>,
      << RawEntry("airswap", FALSE, TRUE, 0, FALSE) >>,
      << RawEntry("paraswap", TRUE, TRUE, 3, TRUE),
         RawEntry("zeroEx", TRUE, FALSE, 1, TRUE), RawEntry("airswap", TRUE, FALSE, 2, TRUE) >>,
      << RawEntry("zeroEx", TRUE, FALSE, 0, FALSE), RawEntry("uniswap", FALSE, FALSE, 3, FALSE) >> }

\* Fetch parameters a caller may pass to startFetchAndSetQuotes
FetchParamsETH == [sourceToken |-> ETH_SWAPS_TOKEN_ADDRESS, destinationToken |-> "0xdai"]
FetchParamsDAI == [sourceToken |-> "0xdai", destinationToken |-> ETH_SWAPS_TOKEN_ADDRESS]

\* fetchParamsMetaData: the token symbols, and the conversion rate of the destination
\* token when it is known (<< >> is undefined)
MetaData(sourceSymbol, destinationSymbol, rate) ==
    [ sourceTokenInfo |-> sourceSymbol, destinationTokenInfo |-> destinationSymbol,
      destinationTokenConversionRate |-> rate ]

StartInputs ==
    { [fetchParams |-> <<FetchParamsETH>>, fetchParamsMetaData |-> MetaData("ETH", "DAI", <<>>),
       customGasPrice |-> "20"],
      [fetchParams |-> <<FetchParamsDAI>>, fetchParamsMetaData |-> MetaData("DAI", "ETH", <<>>),
       customGasPrice |-> Undefined],
      [fetchParams |-> <<>>, fetchParamsMetaData |-> MetaData("ETH", "DAI", <<>>),
       customGasPrice |-> Undefined] }

\* What fetchGasPrices answers as ProposeGasPrice
ProposeGasPrices == { "20" }

----------------------------------------------------------------------------
(* Controller state *)

\* state.tokens: null, or the list fetchTokens returned
NullTokens == [isNull |-> TRUE, list |-> <<>>]

defaultState ==
    [ quotes |-> <<>>,
      quoteValues |-> <<>>,
      fetchParams |-> [sourceToken |-> "", destinationToken |-> ""],
      fetchParamsMetaData |-> MetaData("", "", <<>>),
      topAggSavings |-> <<>>,
      tokens |-> NullTokens,
      approvalTransaction |-> <<>>,
      quotesLastFetched |-> 0,
      errorKey |-> Null,
      topAggId |-> Null,
      tokensLastFetched |-> 0,
      isInPolling |-> FALSE,
      isInFetch |-> FALSE,
      pollingCyclesLeft |-> pollCountLimit ]

\* The controller and what surrounds it, as one value the methods transform
World ==
    [ state |-> state, pollCount |-> pollCount, handle |-> handle,
      strayTimers |-> strayTimers, aborted |-> aborted, calls |-> calls ]

Becomes(w) ==
    /\ state' = w.state
    /\ pollCount' = w.pollCount
    /\ handle' = w.handle
    /\ strayTimers' = w.strayTimers
    /\ aborted' = w.aborted
    /\ calls' = w.calls

\* BaseController.update(partial): the fields of partial overwrite those of state
update(w, partial) ==
    [w EXCEPT !.state =
        [f \in DOMAIN w.state |-> IF f \in DOMAIN partial THEN partial[f] ELSE w.state[f]]]

\* this.handle && clearTimeout(this.handle)
clearHandle(w) ==
    IF w.handle = "pending" THEN [w EXCEPT !.handle = "spent"] ELSE w

\* this.handle = setTimeout(() => this.pollForNewQuotes(), quotePollingInterval)
armTimer(w) ==
    [w EXCEPT !.handle = "pending",
              !.strayTimers = IF w.handle = "pending" THEN @ + 1 ELSE @]

PendingTimers == strayTimers + (IF handle = "pending" THEN 1 ELSE 0)

stopPollingWithError(w, error) ==
    update(w, [isInPolling |-> FALSE, isInFetch |-> FALSE, pollingCyclesLeft |-> 0, errorKey |-> error])

\* stopPollingAndResetState that leaves topAggId as it is
stopPollingAndResetStateKeepingTopAggId(w) ==
    LET w1 == clearHandle([w EXCEPT !.aborted = TRUE])
        w2 == [w1 EXCEPT !.pollCount = pollCountLimit + 1]
    IN  update(w2, [defaultState EXCEPT !.isInPolling = FALSE,
                                        !.isInFetch = FALSE,
                                        !.tokensLastFetched = w.state.tokensLastFetched,
                                        !.tokens = w.state.tokens,
                                        !.topAggId = w.state.topAggId,
                                        !.errorKey = Undefined])

stopPollingAndResetState(w) ==
    LET w1 == clearHandle([w EXCEPT !.aborted = TRUE])
        w2 == [w1 EXCEPT !.pollCount = pollCountLimit + 1]
    IN  update(w2, [defaultState EXCEPT !.isInPolling = FALSE,
                                        !.isInFetch = FALSE,
                                        !.tokensLastFetched = w.state.tokensLastFetched,
                                        !.tokens = w.state.tokens,
                                        !.errorKey = Undefined])

\* fetchAndSetQuotes up to its first await
fetchAndSetQuotesBegin(w, awaitedByPoll) ==
    LET w1 == update(w, [isInFetch |-> TRUE])
    IN  [w1 EXCEPT !.calls = Append(@,
            [ pc |-> "fetchTradesInfo",
              fetchParams |-> w.state.fetchParams,
              customGasPrice |-> w.state.customGasPrice,
              quotes |-> <<>>,
              quotesLastFetched |-> 0,
              approvalTransaction |-> <<>>,
              awaitedByPoll |-> awaitedByPoll,
              stopped |-> FALSE,
              overtaken |-> FALSE,
              superseded |-> FALSE ])]

\* mayPoll with the limit off by one
mayPollOffByOne(count) == count <= pollCountLimit + 1

\* The test of pollForNewQuotes on the incremented poll count
mayPoll(count) == count < pollCountLimit + 1

\* pollForNewQuotes that computes pollingCyclesLeft from the poll count it found
pollForNewQuotesCountingBefore(w) ==
    LET w1 == [w EXCEPT !.pollCount = @ + 1]
    IN  IF mayPoll(w1.pollCount)
        THEN fetchAndSetQuotesBegin(
                clearHandle(update(w1, [isInPolling |-> TRUE,
                                        pollingCyclesLeft |-> pollCountLimit - w.pollCount])),
                TRUE)
        ELSE stopPollingWithError(w1, QUOTES_EXPIRED_ERROR)

\* pollForNewQuotes up to its await of fetchAndSetQuotes
pollForNewQuotes(w) ==
    LET w1 == [w EXCEPT !.pollCount = @ + 1]
    IN  IF mayPoll(w1.pollCount)
        THEN fetchAndSetQuotesBegin(
                clearHandle(update(w1, [isInPolling |-> TRUE,
                                        pollingCyclesLeft |-> pollCountLimit - w1.pollCount])),
                TRUE)
        ELSE stopPollingWithError(w1, QUOTES_EXPIRED_ERROR)

----------------------------------------------------------------------------
(* The pipeline of fetchAndSetQuotes *)

\* A value thrown inside the try block: every throw site throws an Error object
ErrorObject(message) == [isString |-> FALSE, message |-> message]

\* Object.values(SwapsError).includes(e)
includesError(e) == e.isString /\ e.message \in SwapsError

\* catch (e) { ... } of fetchAndSetQuotes
catchBlock(w, e) ==
    LET error == IF includesError(e) THEN e.message ELSE ERROR_FETCHING_QUOTES
    IN  stopPollingAndResetState(stopPollingWithError(w, error))

\* { ...aggIdTradeMap, [quote.aggregator]: quote }: a key keeps its first position
putQuote(map, quote) ==
    IF \E k \in 1..Len(map) : map[k].aggregator = quote.aggregator
    THEN [k \in 1..Len(map) |->
            IF map[k].aggregator = quote.aggregator THEN quote ELSE map[k]]
    ELSE Append(map, quote)

\* reduceTrades that keeps every entry of the response
RECURSIVE reduceTradesUnfiltered(_, _, _)
reduceTradesUnfiltered(raw, k, map) ==
    IF k > Len(raw) THEN map
    ELSE reduceTradesUnfiltered(raw, k + 1, putQuote(map, raw[k]))

\* fetchTradesInfo: the reduce over the response, entry by entry
RECURSIVE reduceTrades(_, _, _)
reduceTrades(raw, k, map) ==
    IF k > Len(raw) THEN map
    ELSE reduceTrades(raw, k + 1,
            IF raw[k].trade /\ ~raw[k].error THEN putQuote(map, raw[k]) ELSE map)

fetchTradesInfo(raw) == reduceTrades(raw, 1, <<>>)

\* BigNumber.toFixed(18) of an amount counted in halves of 10^-18: rounded to a whole
\* number of 10^-18, a half away from zero (ROUND_HALF_UP)
toFixed18(x) ==
    IF x >= 0 THEN 2 * ((x + 1) \div 2) ELSE -(2 * ((1 - x) \div 2))

\* A default parameter value: it stands in for undefined
orDefault(x, d) == IF x = <<>> THEN d ELSE x[1]

\* calculateGasEstimateWithRefund that forgets the refund
calculateGasEstimateWithoutRefund(maxGas, estimatedRefund, estimatedGas) ==
    LET maxGasMinusRefund == orDefault(maxGas, MAX_GAS_LIMIT)
        estimatedGasBN == orDefault(estimatedGas, 0)
    IN  IF maxGasMinusRefund < estimatedGasBN THEN maxGasMinusRefund ELSE estimatedGasBN

calculateGasEstimateWithRefund(maxGas, estimatedRefund, estimatedGas) ==
    LET maxGasMinusRefund == orDefault(maxGas, MAX_GAS_LIMIT) - orDefault(estimatedRefund, 0)
        estimatedGasBN == orDefault(estimatedGas, 0)
    IN  IF maxGasMinusRefund < estimatedGasBN THEN maxGasMinusRefund ELSE estimatedGasBN

\* new BigNumber(x, 16) and plus(x, 16) of the hexadecimal strings of the model
hexToNumber(x) ==
    CASE x = "0x0" -> 0
      [] x = "0x4" -> 4
      [] x = "0x5208" -> 21000
      [] x = "0x1d4c0" -> 120000

\* times(usedGasPrice, 10).times(1000000000) of the gas prices of the model: a price is
\* written in 10^-9 Gwei, so that a gas limit times the price in wei stays a small number
gasPriceInWei(x) ==
    CASE x = "1" -> 1
      [] x = "10" -> 10
      [] x = "20" -> 20

\* Not a number, in gasEstimateWithRefund
NaN == <<>>

\* getAllQuotesWithGasEstimates: every trade with the gas timedoutGasReturn answered for
\* it (gases[k] for trades[k]). BigNumber(null) is NaN, so calculateGasEstimateWithRefund
\* of a null estimate is NaN
RECURSIVE newQuotes(_, _, _)
newQuotes(trades, gases, k) ==
    IF k > Len(trades) THEN <<>>
    ELSE << [ trades[k] EXCEPT
                !.gasEstimate = gases[k],
                !.gasEstimateWithRefund =
                    IF gases[k] = Null THEN NaN
                    ELSE << calculateGasEstimateWithRefund(
                               << trades[k].maxGas >>, << trades[k].estimatedRefund >>,
                               << hexToNumber(gases[k]) >>) >> ] >>
         \o newQuotes(trades, gases, k + 1)

getAllQuotesWithGasEstimates(trades, gases) == newQuotes(trades, gases, 1)

\* customGasPrice || (await this.getGasPrice())
usedGasPrice(customGasPrice, ProposeGasPrice) ==
    IF customGasPrice # Undefined THEN customGasPrice ELSE ProposeGasPrice

\* tradeGasLimit that takes the ceiling whenever the estimate is missing
tradeGasLimitWithoutAverage(quote) ==
    IF quote.gasEstimateWithRefund # NaN /\ quote.gasEstimateWithRefund # << 0 >>
    THEN quote.gasEstimateWithRefund[1]
    ELSE MAX_GAS_LIMIT

\* gasEstimateWithRefund && gasEstimateWithRefund !== 0
\*     ? new BigNumber(gasEstimateWithRefund) : new BigNumber(averageGas || MAX_GAS_LIMIT, 10)
tradeGasLimit(quote) ==
    IF quote.gasEstimateWithRefund # NaN /\ quote.gasEstimateWithRefund # << 0 >>
    THEN quote.gasEstimateWithRefund[1]
    ELSE IF quote.averageGas # <<>> /\ quote.averageGas # << 0 >>
    THEN quote.averageGas[1]
    ELSE MAX_GAS_LIMIT

\* this.state.approvalTransaction?.gas || '0x0'
approvalGas(st) ==
    IF st.approvalTransaction = <<>> \/ st.approvalTransaction[1].gas = Undefined
    THEN "0x0" ELSE st.approvalTransaction[1].gas

\* tradeGasLimit.plus(approvalGas, 16)
totalGasLimit(st, quote) == tradeGasLimit(quote) + hexToNumber(approvalGas(st))

\* totalGasInWei, then totalInWei, then weiFee: the swapped ETH is taken off the total
\* when the source token is ETH
weiFee(st, quote, gasPrice) ==
    LET totalGasInWei == totalGasLimit(st, quote) * gasPriceInWei(gasPrice)
        totalInWei == totalGasInWei + hexToNumber(quote.value)
    IN  IF quote.sourceToken = ETH_SWAPS_TOKEN_ADDRESS
        THEN totalInWei - quote.sourceAmount ELSE totalInWei

\* calcTokenAmount(weiFee, 18), in halves of 10^-18
ethFee(st, quote, gasPrice) == 2 * weiFee(st, quote, gasPrice)

\* destinationTokenConversionRate || 1
conversionRate(st) ==
    IF st.fetchParamsMetaData.destinationTokenConversionRate = <<>> THEN 1
    ELSE st.fetchParamsMetaData.destinationTokenConversionRate[1]

\* decimalAdjustedDestinationAmount.times(conversionRate, 10)
ethValueOfTokens(st, quote) == quote.destinationAmount * conversionRate(st)

\* metaMaskFeeInTokens.times(conversionRate): the amount before the fee is the amount
\* divided by (100 - fee) / 100 (the fees of the model leave no remainder)
metaMaskFeeInEth(st, quote) ==
    (((quote.destinationAmount * 100) \div (100 - quote.fee)) - quote.destinationAmount)
        * conversionRate(st)

\* What one pass of the forEach computes for a quote, before toFixed(18); amountsFrom
\* is the forEach over Object.values(quotes)
amountsOf(st, quote, gasPrice) ==
    [ aggregator |-> quote.aggregator,
      destinationToken |-> quote.destinationToken,
      ethFee |-> ethFee(st, quote, gasPrice),
      ethValueOfTokens |-> ethValueOfTokens(st, quote),
      metaMaskFeeInEth |-> metaMaskFeeInEth(st, quote) ]

\* overallValueOfQuote that takes the fee off for every destination token
overallValueOfQuoteNetOfFee(quote) == quote.ethValueOfTokens - quote.ethFee

\* destinationToken === ETH_SWAPS_TOKEN_ADDRESS ? ethValueOfTokens.minus(ethFee, 10) : ethValueOfTokens
\* (quote: the amounts of the quote)
overallValueOfQuote(quote) ==
    IF quote.destinationToken = ETH_SWAPS_TOKEN_ADDRESS
    THEN quote.ethValueOfTokens - quote.ethFee
    ELSE quote.ethValueOfTokens

\* getBestQuoteAndQuotesValues: the forEach over Object.values(quotes)
RECURSIVE bestQuoteFrom(_, _, _, _)
bestQuoteFrom(quotes, k, topAggId, best) ==
    IF k > Len(quotes) THEN topAggId
    ELSE IF overallValueOfQuote(quotes[k]) > best
         THEN bestQuoteFrom(quotes, k + 1, quotes[k].aggregator, overallValueOfQuote(quotes[k]))
         ELSE bestQuoteFrom(quotes, k + 1, topAggId, best)

\* getBestQuoteAndQuotesValues(quotes, customGasPrice) with this.state = st, once the gas
\* price is known
RECURSIVE amountsFrom(_, _, _, _)
amountsFrom(st, quotes, gasPrice, k) ==
    IF k > Len(quotes) THEN <<>>
    ELSE << amountsOf(st, quotes[k], gasPrice) >> \o amountsFrom(st, quotes, gasPrice, k + 1)

\* quoteValues[aggregator] = {...}, for each quote in turn
RECURSIVE quoteValuesFrom(_, _)
quoteValuesFrom(amounts, k) ==
    IF k > Len(amounts) THEN <<>>
    ELSE << [ aggregator |-> amounts[k].aggregator,
              ethFee |-> toFixed18(amounts[k].ethFee),
              ethValueOfTokens |-> toFixed18(amounts[k].ethValueOfTokens),
              overallValueOfQuote |-> toFixed18(overallValueOfQuote(amounts[k])),
              metaMaskFeeInEth |-> toFixed18(amounts[k].metaMaskFeeInEth) ] >>
         \o quoteValuesFrom(amounts, k + 1)

getBestQuoteAndQuotesValues(st, quotes, gasPrice) ==
    LET amounts == amountsFrom(st, quotes, gasPrice, 1)
    IN  [ topAggId |-> bestQuoteFrom(amounts, 1, "", 0),
          quoteValues |-> quoteValuesFrom(amounts, 1) ]

\* Array.prototype.sort with the comparator of getMedian (a.eq(b) ? 0 : a.lt(b) ? -1 : 1):
\* x is put after the elements that are not greater
RECURSIVE insertSorted(_, _)
insertSorted(sorted, x) ==
    IF Len(sorted) = 0 THEN << x >>
    ELSE IF x < sorted[1] THEN << x >> \o sorted
    ELSE << sorted[1] >> \o insertSorted(Tail(sorted), x)

RECURSIVE sort(_)
sort(values) ==
    IF Len(values) = 0 THEN <<>>
    ELSE insertSorted(sort(SubSeq(values, 1, Len(values) - 1)), values[Len(values)])

\* getMedian that sorts the array it is given instead of a copy
getMedianInPlace(a) ==
    IF ~a.isArray \/ Len(a.values) = 0
    THEN [ threw |-> << "Expected non-empty array param." >>, value |-> <<>>, values |-> a.values ]
    ELSE LET sorted == sort(a.values)
             upperIndex == Len(sorted) \div 2
         IN  [ threw |-> <<>>,
               value |-> << IF Len(sorted) % 2 = 1
                            THEN sorted[((Len(sorted) - 1) \div 2) + 1]
                            ELSE (sorted[upperIndex + 1] + sorted[upperIndex]) \div 2 >>,
               values |-> sorted ]

\* getMedian without the test for an empty array: sorted[0].plus(sorted[-1]) is a TypeError
getMedianUnguarded(a) ==
    IF ~a.isArray
    THEN [ threw |-> << "Expected non-empty array param." >>, value |-> <<>>, values |-> a.values ]
    ELSE IF Len(a.values) = 0
    THEN [ threw |-> << "TypeError" >>, value |-> <<>>, values |-> a.values ]
    ELSE LET sorted == sort(a.values)
             upperIndex == Len(sorted) \div 2
         IN  [ threw |-> <<>>,
               value |-> << IF Len(sorted) % 2 = 1
                            THEN sorted[((Len(sorted) - 1) \div 2) + 1]
                            ELSE (sorted[upperIndex + 1] + sorted[upperIndex]) \div 2 >>,
               values |-> a.values ]

\* getMedian(values): what it throws or returns, and the array values after the call
\* (indices are those of the source plus one)
getMedian(a) ==
    IF ~a.isArray \/ Len(a.values) = 0
    THEN [ threw |-> << "Expected non-empty array param." >>, value |-> <<>>, values |-> a.values ]
    ELSE LET sorted == sort(a.values)
             upperIndex == Len(sorted) \div 2
         IN  [ threw |-> <<>>,
               value |-> << IF Len(sorted) % 2 = 1
                            THEN sorted[((Len(sorted) - 1) \div 2) + 1]
                            ELSE (sorted[upperIndex + 1] + sorted[upperIndex]) \div 2 >>,
               values |-> a.values ]

\* The series of one field over the quote values
seriesOf(quoteValues, field) == [k \in 1..Len(quoteValues) |-> quoteValues[k][field]]

\* getMedianEthValueQuote(Object.values(quoteValues)): the median of the fee series, of
\* the fee-in-reference-units series and of the destination-value series, each on its own
getMedianEthValueQuote(quoteValues) ==
    [ ethFee |->
        getMedian([isArray |-> TRUE, values |-> seriesOf(quoteValues, "ethFee")]).value[1],
      metaMaskFeeInEth |->
        getMedian([isArray |-> TRUE, values |-> seriesOf(quoteValues, "metaMaskFeeInEth")]).value[1],
      ethValueOfTokens |->
        getMedian([isArray |-> TRUE, values |-> seriesOf(quoteValues, "ethValueOfTokens")]).value[1] ]

\* quoteValues[quote.aggregator]
valuesOf(quoteValues, aggregator) ==
    quoteValues[CHOOSE k \in 1..Len(quoteValues) : quoteValues[k].aggregator = aggregator]

\* calculateSavings that adds the MetaMask fee to the total instead of taking it off
calculateSavingsAddingFee(quote, quoteValues) ==
    LET median == getMedianEthValueQuote(quoteValues)
        bestTradeFee == valuesOf(quoteValues, quote.aggregator)
        performance == bestTradeFee.ethValueOfTokens - median.ethValueOfTokens
        fee == median.ethFee - bestTradeFee.ethFee
        metaMaskFee == bestTradeFee.metaMaskFeeInEth
        total == (performance + fee) + metaMaskFee
    IN  [ performance |-> performance, total |-> total, fee |-> fee,
          medianMetaMaskFee |-> median.metaMaskFeeInEth ]

calculateSavings(quote, quoteValues) ==
    LET median == getMedianEthValueQuote(quoteValues)
        bestTradeFee == valuesOf(quoteValues, quote.aggregator)
        performance == bestTradeFee.ethValueOfTokens - median.ethValueOfTokens
        fee == median.ethFee - bestTradeFee.ethFee
        metaMaskFee == bestTradeFee.metaMaskFeeInEth
        total == (performance + fee) - metaMaskFee
    IN  [ performance |-> performance, total |-> total, fee |-> fee,
          medianMetaMaskFee |-> median.metaMaskFeeInEth ]

\* quotes[topAggId]
hasQuote(quotes, aggId) == \E k \in 1..Len(quotes) : quotes[k].aggregator = aggId

removeAt(seq, i) == [k \in 1..(Len(seq) - 1) |-> IF k < i THEN seq[k] ELSE seq[k + 1]]

\* fetchAndSetQuotes returns; pollForNewQuotes, when it awaited the call, arms the next timer
returnFrom(w, i) ==
    LET w1 == [w EXCEPT !.calls = removeAt(@, i)]
    IN  IF w.calls[i].awaitedByPoll THEN armTimer(w1) ELSE w1

\* The guard of the final update: this.state.isInPolling && this.update(...)
mayCommit(w) == w.state.isInPolling

\* mayRefetch without the test of the timer handle
mayRefetchWhenSet(w) == TRUE

\* The guard of safeRefetchQuotes: !this.handle && fetchParams (fetchParams is an object)
mayRefetch(w) == w.handle = "undefined"

----------------------------------------------------------------------------
(* History of the session: bookkeeping the claims are stated with *)

Tasks == Len(calls) + PendingTimers

\* The token cache a controller may be constructed with (constructor(config, state))
CachedTokens == [isNull |-> FALSE, list |-> << ETH_SWAPS_TOKEN_ADDRESS >>]

InitialTokenCaches ==
    { [tokens |-> NullTokens, tokensLastFetched |-> 0],
      [tokens |-> CachedTokens, tokensLastFetched |-> 1] }

\* No helper function under call
NoCall == [fn |-> "none"]

\* The state after construction; tagging says whether in-flight calls are marked
\* when stopPollingAndResetState is called, a later call commits or
\* startFetchAndSetQuotes is called again
ControllerInit(tagging) ==
    /\ \E cache \in InitialTokenCaches :
         state = [f \in DOMAIN defaultState \cup {"customGasPrice"} |->
                    IF f = "customGasPrice" THEN Undefined
                    ELSE IF f \in DOMAIN cache THEN cache[f]
                    ELSE defaultState[f]]
    /\ pollCount = 0
    /\ handle = "undefined"
    /\ strayTimers = 0
    /\ aborted = FALSE
    /\ calls = <<>>
    /\ mutex = [locked |-> FALSE, waiters |-> 0, fetching |-> FALSE]
    /\ now = 1
    /\ hist = [ tagging |-> tagging,
                started |-> FALSE, failed |-> FALSE, stopped |-> FALSE,
                expired |-> FALSE, cycles |-> 0, fetchTokensFailed |-> FALSE ]

InitWith(tagging) ==
    /\ ControllerInit(tagging)
    /\ arg = NoCall
    /\ ret = NoCall

Init == InitWith(FALSE)

InitTagged == InitWith(TRUE)

----------------------------------------------------------------------------
(* Operations of the controller *)

startFetchAndSetQuotes(inp) ==
    /\ IF inp.fetchParams = <<>>
       THEN /\ UNCHANGED <<state, pollCount, handle, strayTimers, aborted, calls>>
            /\ hist' = hist
       ELSE /\ LET w1 == [World EXCEPT
                               !.pollCount = 0,
                               !.calls = [k \in 1..Len(calls) |->
                                             [calls[k] EXCEPT !.superseded = hist.tagging]]]
                   w2 == update(w1, [ customGasPrice |-> inp.customGasPrice,
                                      fetchParams |-> inp.fetchParams[1],
                                      fetchParamsMetaData |-> inp.fetchParamsMetaData ])
               IN  Becomes(pollForNewQuotes(w2))
            /\ Tasks' <= MaxTasks
            /\ hist' = [hist EXCEPT
                            !.started = TRUE, !.failed = FALSE, !.stopped = FALSE,
                            !.expired = FALSE, !.cycles = Len(calls') - Len(calls)]
    /\ UNCHANGED <<mutex, now, arg, ret>>

stopPollingAndResetStateCalled ==
    /\ LET w == [World EXCEPT !.calls = [k \in 1..Len(calls) |-> [calls[k] EXCEPT !.stopped = hist.tagging]]]
       IN  Becomes(stopPollingAndResetState(w))
    /\ hist' = [hist EXCEPT !.stopped = TRUE]
    /\ UNCHANGED <<mutex, now, arg, ret>>

safeRefetchQuotes ==
    /\ IF mayRefetch(World)
       THEN /\ Becomes(fetchAndSetQuotesBegin(World, FALSE))
            /\ Tasks' <= MaxTasks
       ELSE UNCHANGED <<state, pollCount, handle, strayTimers, aborted, calls>>
    /\ hist' = hist
    /\ UNCHANGED <<mutex, now, arg, ret>>

\* A poll timer fires: the one this.handle holds, or one it no longer holds
pollTimerFires(stray) ==
    /\ IF stray THEN strayTimers > 0 ELSE handle = "pending"
    /\ LET w == IF stray THEN [World EXCEPT !.strayTimers = @ - 1]
                         ELSE [World EXCEPT !.handle = "spent"]
       IN  Becomes(pollForNewQuotes(w))
    /\ hist' = [hist EXCEPT
                    !.cycles = @ + (Len(calls') - Len(calls)),
                    !.expired = @ \/ Len(calls') = Len(calls)]
    /\ UNCHANGED <<mutex, now, arg, ret>>

\* The try block fails in call i with thrown value e
fails(i, e) ==
    /\ Becomes(returnFrom(catchBlock(World, e), i))
    /\ hist' = [hist EXCEPT !.failed = TRUE]

\* await fetchTradesInfo(fetchParams, signal) rejects (network error, timeout, abort)
fetchTradesInfoRejects(i) ==
    /\ calls[i].pc = "fetchTradesInfo"
    /\ fails(i, ErrorObject("timeout"))
    /\ UNCHANGED <<mutex, now, arg, ret>>

\* await fetchTradesInfo(fetchParams, signal) resolves with the quotes of response raw
fetchTradesInfoResolves(i, raw) ==
    /\ calls[i].pc = "fetchTradesInfo"
    /\ LET quotes == fetchTradesInfo(raw)
       IN  IF Len(quotes) = 0
           THEN fails(i, ErrorObject(QUOTES_NOT_AVAILABLE_ERROR))
           ELSE /\ calls' = [calls EXCEPT ![i] =
                        [@ EXCEPT !.quotes = quotes,
                                  !.quotesLastFetched = now,
                                  !.pc = IF calls[i].fetchParams.sourceToken # ETH_SWAPS_TOKEN_ADDRESS
                                         THEN "getERC20Allowance"
                                         ELSE "getAllQuotesWithGasEstimates"]]
                /\ hist' = hist
                /\ UNCHANGED <<state, pollCount, handle, strayTimers, aborted>>
    /\ UNCHANGED <<mutex, now, arg, ret>>

\* await this.getERC20Allowance(...) answers: "reject", or the allowance "0" or "1"
getERC20AllowanceReturns(i, result) ==
    /\ calls[i].pc = "getERC20Allowance"
    /\ IF result = "reject"
       THEN fails(i, ErrorObject("allowance"))
       ELSE IF result = "0" /\ pollCount = 1
       THEN IF calls[i].quotes[1].approvalNeeded = <<>>
            THEN fails(i, ErrorObject(ERROR_FETCHING_QUOTES))
            ELSE /\ calls' = [calls EXCEPT ![i] =
                        [@ EXCEPT !.approvalTransaction = calls[i].quotes[1].approvalNeeded,
                                  !.pc = "getAllQuotesWithGasEstimates"]]
                 /\ hist' = hist
                 /\ UNCHANGED <<state, pollCount, handle, strayTimers, aborted>>
       ELSE /\ calls' = [calls EXCEPT ![i] = [@ EXCEPT !.pc = "getAllQuotesWithGasEstimates"]]
            /\ hist' = hist
            /\ UNCHANGED <<state, pollCount, handle, strayTimers, aborted>>
    /\ UNCHANGED <<mutex, now, arg, ret>>

\* The approval transaction of call c once timedoutGasReturn has answered with gas
\* (an estimate, or null on timeout, RPC error or a null skeleton)
withApprovalGas(c, gas) ==
    IF c.approvalTransaction = <<>> THEN <<>>
    ELSE << [c.approvalTransaction[1] EXCEPT
                !.gas = IF gas = Null THEN DEFAULT_ERC20_APPROVE_GAS ELSE gas] >>

\* What timedoutGasReturn may answer for the trades: the node estimates the transaction
\* of zeroEx, and fails or is too slow on the transactions of the other aggregators
GasVectors(trades) ==
    { [k \in 1..Len(trades) |-> IF trades[k].aggregator = "zeroEx" THEN "0x5208" ELSE Null] }

\* getBestQuoteAndQuotesValues(quotes, customGasPrice) in call i, on the quotes with the
\* gas estimates gases; the controller state is read as it is then
evaluated(i, gases, ProposeGasPrice) ==
    getBestQuoteAndQuotesValues(state, getAllQuotesWithGasEstimates(calls[i].quotes, gases),
                                usedGasPrice(calls[i].customGasPrice, ProposeGasPrice))

\* The evaluation of call i throws: getGasPrice rejects, or calculateSavings reads
\* quotes[topAggId].aggregator when no quote was selected
evaluationThrows(i, gases, ProposeGasPrice, gasPriceOk) ==
    \/ calls[i].customGasPrice = Undefined /\ ~gasPriceOk
    \/ ~hasQuote(calls[i].quotes, evaluated(i, gases, ProposeGasPrice).topAggId)

\* The final update of call i: this.state.isInPolling && this.update({...})
commits(i, gas, gases, ProposeGasPrice) ==
    LET c == [calls[i] EXCEPT !.quotes = getAllQuotesWithGasEstimates(@, gases)]
        best == evaluated(i, gases, ProposeGasPrice)
        w == [World EXCEPT !.calls =
                [k \in 1..Len(calls) |->
                    IF k < i THEN [calls[k] EXCEPT !.overtaken = hist.tagging] ELSE calls[k]]]
    IN  /\ Becomes(returnFrom(
                update(w, [ quotes |-> c.quotes,
                            quotesLastFetched |-> c.quotesLastFetched,
                            approvalTransaction |-> withApprovalGas(c, gas),
                            topAggId |-> best.topAggId,
                            topAggSavings |->
                                << calculateSavings(
                                     c.quotes[CHOOSE k \in 1..Len(c.quotes) :
                                                 c.quotes[k].aggregator = best.topAggId],
                                     best.quoteValues) >>,
                            isInFetch |-> FALSE,
                            quoteValues |-> best.quoteValues ]), i))
        /\ hist' = hist

\* Call i ends without the final update and without an error
discards(i) ==
    /\ Becomes(returnFrom(World, i))
    /\ hist' = hist

\* The rest of the try block of call i, from the approval gas estimate on: the awaits of
\* timedoutGasReturn, getAllQuotesWithGasEstimates, getBestQuoteAndQuotesValues and
\* calculateSavings touch no controller state before the final update
quotesEvaluated(i, gas, gases, ProposeGasPrice, gasPriceOk) ==
    /\ calls[i].pc = "getAllQuotesWithGasEstimates"
    /\ calls[i].approvalTransaction = <<>> => gas = Null       \* no estimate is asked for
    /\ calls[i].customGasPrice # Undefined => gasPriceOk       \* getGasPrice is not called
    /\ IF evaluationThrows(i, gases, ProposeGasPrice, gasPriceOk)
       THEN fails(i, ErrorObject("TypeError"))
       ELSE IF mayCommit(World) THEN commits(i, gas, gases, ProposeGasPrice)
       ELSE discards(i)
    /\ UNCHANGED <<mutex, now, arg, ret>>

Next ==
    \/ \E inp \in StartInputs : startFetchAndSetQuotes(inp)
    \/ stopPollingAndResetStateCalled
    \/ safeRefetchQuotes
    \/ \E stray \in BOOLEAN : pollTimerFires(stray)
    \/ \E i \in 1..Len(calls) : fetchTradesInfoRejects(i)
    \/ \E i \in 1..Len(calls), raw \in TradesResponses : fetchTradesInfoResolves(i, raw)
    \/ \E i \in 1..Len(calls), result \in {"reject", "0", "1"} : getERC20AllowanceReturns(i, result)
    \/ \E i \in 1..Len(calls), gas \in {Null, "0x5208"}, gasPriceOk \in BOOLEAN :
         \E gases \in GasVectors(calls[i].quotes), ProposeGasPrice \in ProposeGasPrices :
            quotesEvaluated(i, gas, gases, ProposeGasPrice, gasPriceOk)

Spec == Init /\ [][Next]_vars

\* The same program, with the in-flight calls marked for the claims about stale results
SpecTagged == InitTagged /\ [][Next]_vars

----------------------------------------------------------------------------
(* Vocabulary of the claims *)

\* The session fields of state: all but the token cache and customGasPrice
SessionFields ==
    { "quotes", "quoteValues", "topAggId", "topAggSavings", "fetchParams",
      "approvalTransaction", "quotesLastFetched", "errorKey", "isInPolling",
      "isInFetch", "pollingCyclesLeft" }

\* A session started by startFetchAndSetQuotes in which no cycle has failed and
\* stopPollingAndResetState has not been called
CleanSession == hist.started /\ ~hist.failed /\ ~hist.stopped

\* The values the try block of fetchAndSetQuotes throws
Thrown ==
    { ErrorObject(m) : m \in {"timeout", "allowance", "TypeError",
                              QUOTES_NOT_AVAILABLE_ERROR, ERROR_FETCHING_QUOTES} }

\* The typed reason of a failure that threw e
TypedReason(e) == IF e.message \in SwapsError THEN e.message ELSE ERROR_FETCHING_QUOTES

\* This step is the final update of call i
CommitStep(i) ==
    /\ calls[i].pc = "getAllQuotesWithGasEstimates"
    /\ mayCommit(World)
    /\ \E gas \in {Null, "0x5208"}, gases \in GasVectors(calls[i].quotes),
          ProposeGasPrice \in ProposeGasPrices :
            /\ hasQuote(calls[i].quotes, evaluated(i, gases, ProposeGasPrice).topAggId)
            /\ commits(i, gas, gases, ProposeGasPrice)

\* This step is a call of safeRefetchQuotes that dispatches a quote fetch
RefetchDispatches == safeRefetchQuotes /\ Len(calls') > Len(calls)

----------------------------------------------------------------------------
(* The token cache: fetchTokenWithCache, serialized by this.mutex *)

MaxNow == 4        \* Date.now() runs from 1 to MaxNow
MaxWaiters == 2    \* callers of fetchTokenWithCache that may wait in mutex.acquire()

\* config.fetchTokensThreshold (24 hours), with Date.now() counted in units of 24 hours
fetchTokensThreshold == 1

\* Bodies of the /tokens response
TokenResponses ==
    { <<>>, << "0xdai" >>, << ETH_SWAPS_TOKEN_ADDRESS, "0xdai" >>,
      << ETH_SWAPS_TOKEN_ADDRESS, "0xdai", ETH_SWAPS_TOKEN_ADDRESS, "0xusdc" >> }

RECURSIVE withoutETH(_, _)
withoutETH(tokens, k) ==
    IF k > Len(tokens) THEN <<>>
    ELSE (IF tokens[k] # ETH_SWAPS_TOKEN_ADDRESS THEN << tokens[k] >> ELSE <<>>)
             \o withoutETH(tokens, k + 1)

\* fetchTokens that pushes ETH_SWAPS_TOKEN_OBJECT onto the list as it came
fetchTokensUnfiltered(tokens) ==
    [isNull |-> FALSE, list |-> Append(tokens, ETH_SWAPS_TOKEN_ADDRESS)]

\* fetchTokens: the response without the ETH address, then ETH_SWAPS_TOKEN_OBJECT pushed
fetchTokens(tokens) ==
    [isNull |-> FALSE, list |-> Append(withoutETH(tokens, 1), ETH_SWAPS_TOKEN_ADDRESS)]

\* mustFetchTokens that also refreshes a cache exactly fetchTokensThreshold old
mustFetchTokensAtThreshold(st, t) ==
    st.tokens.isNull \/ fetchTokensThreshold <= t - st.tokensLastFetched

\* !this.state.tokens || this.config.fetchTokensThreshold < Date.now() - this.state.tokensLastFetched
mustFetchTokens(st, t) ==
    st.tokens.isNull \/ fetchTokensThreshold < t - st.tokensLastFetched

\* releaseLock(): the lock passes to the caller that waits longest, which then calls
\* fetchTokens; with no caller waiting the lock is free
releaseLock(m) ==
    IF m.waiters > 0 THEN [m EXCEPT !.waiters = @ - 1, !.fetching = TRUE]
    ELSE [m EXCEPT !.locked = FALSE]

\* fetchTokenWithCache is called: with a stale cache the caller takes the lock and
\* calls fetchTokens, or waits in acquire() while another caller holds the lock
fetchTokenWithCache ==
    /\ IF mustFetchTokens(state, now)
       THEN IF mutex.locked
            THEN /\ mutex.waiters < MaxWaiters
                 /\ mutex' = [mutex EXCEPT !.waiters = @ + 1]
            ELSE mutex' = [mutex EXCEPT !.locked = TRUE, !.fetching = TRUE]
       ELSE mutex' = mutex
    /\ UNCHANGED <<state, pollCount, handle, strayTimers, aborted, calls, now, hist, arg, ret>>

\* await fetchTokens() resolves in the caller that holds the lock
fetchTokensResolves(tokens) ==
    /\ mutex.fetching
    /\ Becomes(update(World, [tokens |-> fetchTokens(tokens), tokensLastFetched |-> now]))
    /\ mutex' = releaseLock([mutex EXCEPT !.fetching = FALSE])
    /\ UNCHANGED <<now, hist, arg, ret>>

\* fetchTokensRejects without the finally block: the rejection leaves the function
\* before releaseLock() is called
fetchTokensRejectsWithoutFinally ==
    /\ mutex.fetching
    /\ mutex' = [mutex EXCEPT !.fetching = FALSE]
    /\ hist' = [hist EXCEPT !.fetchTokensFailed = TRUE]
    /\ UNCHANGED <<state, pollCount, handle, strayTimers, aborted, calls, now, arg, ret>>

\* await fetchTokens() rejects in the caller that holds the lock: finally releases it
fetchTokensRejects ==
    /\ mutex.fetching
    /\ mutex' = releaseLock([mutex EXCEPT !.fetching = FALSE])
    /\ hist' = [hist EXCEPT !.fetchTokensFailed = TRUE]
    /\ UNCHANGED <<state, pollCount, handle, strayTimers, aborted, calls, now, arg, ret>>

\* Time passes
Tick ==
    /\ now < MaxNow
    /\ now' = now + 1
    /\ UNCHANGED <<state, pollCount, handle, strayTimers, aborted, calls, mutex, hist, arg, ret>>

NextTokens ==
    \/ fetchTokenWithCache
    \/ \E tokens \in TokenResponses : fetchTokensResolves(tokens)
    \/ fetchTokensRejects
    \/ Tick
    \/ stopPollingAndResetStateCalled

\* The controller under calls of fetchTokenWithCache and stopPollingAndResetState
SpecTokens == Init /\ [][NextTokens]_vars

----------------------------------------------------------------------------
(* The helper functions of SwapsUtil and of the controller, each applied to the
   arguments the call was made with *)

MaxSample == 4     \* longest sample given to getMedian

\* BigNumber values of a sample, counted in halves of a unit: whole numbers of units,
\* so that div(2) of a sum of two is as exact here as it is in BigNumber
Decimals == { -2, 0, 2, 4 }

RECURSIVE SamplesOfLength(_)
SamplesOfLength(n) ==
    IF n = 0 THEN { <<>> }
    ELSE { Append(sample, d) : sample \in SamplesOfLength(n - 1), d \in Decimals }

\* Arguments of getMedian: arrays of BigNumbers, and a value that is no array
GetMedianCalls ==
    { [fn |-> "getMedian", isArray |-> TRUE, values |-> sample] :
          sample \in UNION { SamplesOfLength(n) : n \in 0..MaxSample } }
    \cup { [fn |-> "getMedian", isArray |-> FALSE, values |-> <<>>] }

\* An optional number argument: << >> is undefined
GasNumbers == { 0, 1, 3, 501000, 2000000, 2500001 }
OptionalGasNumbers == { <<>> } \cup { << n >> : n \in GasNumbers }

CalculateGasEstimateWithRefundCalls ==
    [ fn : {"calculateGasEstimateWithRefund"},
      maxGas : OptionalGasNumbers, estimatedRefund : OptionalGasNumbers,
      estimatedGas : OptionalGasNumbers ]

\* Quotes as getAllQuotesWithGasEstimates hands them to the evaluator, with amounts in
\* halves of 10^-18 (an odd number is an amount that toFixed(18) rounds)
Aggregators == { "airswap", "paraswap", "zeroEx" }

QuotesFrom(agg, destinationToken) ==
    [ aggregator : {agg}, sourceToken : {"0xusdc"}, destinationToken : {destinationToken},
      sourceAmount : {0}, destinationAmount : {0, 3, 4}, value : {"0x0"}, fee : {50},
      averageGas : { <<>> }, gasEstimateWithRefund : { << 1 >>, << 3 >> } ]

\* The non-empty quote sets, in every order of arrival, for one destination token
RECURSIVE QuoteSetsOver(_, _)
QuoteSetsOver(aggs, destinationToken) ==
    UNION { { << q >> : q \in QuotesFrom(agg, destinationToken) }
            \cup { << q >> \o rest : q \in QuotesFrom(agg, destinationToken),
                                     rest \in QuoteSetsOver(aggs \ {agg}, destinationToken) }
            : agg \in aggs }

QuoteSets ==
    QuoteSetsOver(Aggregators, ETH_SWAPS_TOKEN_ADDRESS) \cup QuoteSetsOver(Aggregators, "0xdai")

\* Quotes with and without a gas estimate, an average and a swapped amount of ETH
QuotesWithGasFrom(agg) ==
    [ aggregator : {agg}, sourceToken : {ETH_SWAPS_TOKEN_ADDRESS, "0xusdc"},
      destinationToken : {ETH_SWAPS_TOKEN_ADDRESS, "0xdai"},
      sourceAmount : {0, 300000}, destinationAmount : {3}, value : {"0x4"}, fee : {50},
      averageGas : { <<>>, << 30000 >> }, gasEstimateWithRefund : { NaN, << 0 >>, << 21000 >> } ]

\* Such a quote alone, or before or after a quote of another aggregator
QuoteSetsWithGas ==
    LET other == CHOOSE q \in QuotesFrom("zeroEx", "0xdai") :
                    q.destinationAmount = 3 /\ q.gasEstimateWithRefund = << 3 >>
    IN  UNION { { << q >>, << q, other >>, << other, q >> } : q \in QuotesWithGasFrom("airswap") }

\* The part of this.state the evaluator reads
EvaluatorState(approvalTransaction, rate) ==
    [ approvalTransaction |-> approvalTransaction,
      fetchParamsMetaData |-> MetaData("", "", rate) ]

GetBestQuoteAndQuotesValuesCalls ==
    { [ fn |-> "getBestQuoteAndQuotesValues", state |-> EvaluatorState(<<>>, <<>>),
        quotes |-> quotes, customGasPrice |-> "1", ProposeGasPrice |-> "10" ]
      : quotes \in QuoteSets }
    \cup
    { [ fn |-> "getBestQuoteAndQuotesValues", state |-> EvaluatorState(approvalTransaction, rate),
        quotes |-> quotes, customGasPrice |-> Undefined, ProposeGasPrice |-> "10" ]
      : quotes \in QuoteSetsWithGas,
        approvalTransaction \in { <<>>, << [ApprovalSkeleton EXCEPT !.gas = "0x1d4c0"] >> },
        rate \in { <<>>, << 2 >> } }

\* calculateSavings is called with a quote of the set and the values of the set's quotes
CalculateSavingsCalls ==
    UNION { { [ fn |-> "calculateSavings", quote |-> quotes[k],
                quoteValues |->
                    getBestQuoteAndQuotesValues(EvaluatorState(<<>>, <<>>), quotes, "1").quoteValues ]
              : k \in 1..Len(quotes) }
            : quotes \in QuoteSetsOver(Aggregators, ETH_SWAPS_TOKEN_ADDRESS) }

\* getAllQuotesWithGasEstimates is called with the quotes of a /trades response, and
\* timedoutGasReturn answers null or an estimate for each of them
GetAllQuotesWithGasEstimatesCalls ==
    UNION { { [ fn |-> "getAllQuotesWithGasEstimates", trades |-> fetchTradesInfo(raw),
                gases |-> gases ]
              : gases \in [1..Len(fetchTradesInfo(raw)) -> {Null, "0x5208", "0x1d4c0"}] }
            : raw \in { r \in TradesResponses : Len(fetchTradesInfo(r)) > 0 } }

\* getMedian(values) is applied to the arguments of the call
getMedianReturns ==
    /\ arg.fn = "getMedian" /\ ret = NoCall
    /\ LET r == getMedian(arg)
       IN  /\ ret' = [fn |-> "getMedian", threw |-> r.threw, value |-> r.value]
           /\ arg' = [arg EXCEPT !.values = r.values]
    /\ UNCHANGED <<state, pollCount, handle, strayTimers, aborted, calls, mutex, now, hist>>

calculateGasEstimateWithRefundReturns ==
    /\ arg.fn = "calculateGasEstimateWithRefund" /\ ret = NoCall
    /\ ret' = [ fn |-> "calculateGasEstimateWithRefund",
                value |-> calculateGasEstimateWithRefund(arg.maxGas, arg.estimatedRefund,
                                                         arg.estimatedGas) ]
    /\ arg' = arg
    /\ UNCHANGED <<state, pollCount, handle, strayTimers, aborted, calls, mutex, now, hist>>

getBestQuoteAndQuotesValuesReturns ==
    /\ arg.fn = "getBestQuoteAndQuotesValues" /\ ret = NoCall
    /\ LET r == getBestQuoteAndQuotesValues(arg.state, arg.quotes,
                                            usedGasPrice(arg.customGasPrice, arg.ProposeGasPrice))
       IN  ret' = [ fn |-> "getBestQuoteAndQuotesValues",
                    topAggId |-> r.topAggId, quoteValues |-> r.quoteValues ]
    /\ arg' = arg
    /\ UNCHANGED <<state, pollCount, handle, strayTimers, aborted, calls, mutex, now, hist>>

getAllQuotesWithGasEstimatesReturns ==
    /\ arg.fn = "getAllQuotesWithGasEstimates" /\ ret = NoCall
    /\ ret' = [ fn |-> "getAllQuotesWithGasEstimates",
                quotes |-> getAllQuotesWithGasEstimates(arg.trades, arg.gases) ]
    /\ arg' = arg
    /\ UNCHANGED <<state, pollCount, handle, strayTimers, aborted, calls, mutex, now, hist>>

calculateSavingsReturns ==
    /\ arg.fn = "calculateSavings" /\ ret = NoCall
    /\ LET r == calculateSavings(arg.quote, arg.quoteValues)
       IN  ret' = [ fn |-> "calculateSavings", performance |-> r.performance,
                    total |-> r.total, fee |-> r.fee,
                    medianMetaMaskFee |-> r.medianMetaMaskFee ]
    /\ arg' = arg
    /\ UNCHANGED <<state, pollCount, handle, strayTimers, aborted, calls, mutex, now, hist>>

\* Arguments of timedoutGasReturn: null, or a transaction skeleton
TimedoutGasReturnCalls ==
    { [fn |-> "timedoutGasReturn", tradeTxParams |-> <<>>],
      [fn |-> "timedoutGasReturn", tradeTxParams |-> << [data |-> "0xapprove"] >>] }

\* What estimateGas may answer
GasEstimates == { "0x5208", "0x1d4c0" }

\* The promise timedoutGasReturn returns, with the two promises that race for it
GasPromise(pc, gas, estimateGas, gasTimeout) ==
    [ fn |-> "timedoutGasReturn", pc |-> pc, gas |-> gas,
      estimateGas |-> estimateGas, gasTimeout |-> gasTimeout ]

\* resolve(value): a promise settles once, a later resolve has no effect
resolve(promise, gas) ==
    IF promise.pc = "pending" THEN [promise EXCEPT !.pc = "resolved", !.gas = gas] ELSE promise

\* estimateFailed without the try / catch around the race: the executor's rejection is
\* not handled and the returned promise never resolves to { gas: null }
estimateFailedUncaught(promise) ==
    IF promise.pc = "pending" THEN [promise EXCEPT !.pc = "rejected"] ELSE promise

\* catch (e) { resolve({ gas: null }) }
estimateFailed(promise) == resolve(promise, Null)

\* timedoutGasReturn(tradeTxParams) is called: without a skeleton it resolves at once,
\* otherwise it arms the 5 s timer and races estimateGas against it
timedoutGasReturnCalled ==
    /\ arg.fn = "timedoutGasReturn" /\ ret = NoCall
    /\ ret' = IF arg.tradeTxParams = <<>>
              THEN resolve(GasPromise("pending", Undefined, "none", "none"), Null)
              ELSE GasPromise("pending", Undefined, "pending", "armed")
    /\ arg' = arg
    /\ UNCHANGED <<state, pollCount, handle, strayTimers, aborted, calls, mutex, now, hist>>

\* estimateGas answers
estimateGasResolves(gas) ==
    /\ arg.fn = "timedoutGasReturn" /\ ret # NoCall /\ ret.estimateGas = "pending"
    /\ ret' = resolve([ret EXCEPT !.estimateGas = "resolved"], gas)
    /\ arg' = arg
    /\ UNCHANGED <<state, pollCount, handle, strayTimers, aborted, calls, mutex, now, hist>>

\* estimateGas fails
estimateGasRejects ==
    /\ arg.fn = "timedoutGasReturn" /\ ret # NoCall /\ ret.estimateGas = "pending"
    /\ ret' = estimateFailed([ret EXCEPT !.estimateGas = "rejected"])
    /\ arg' = arg
    /\ UNCHANGED <<state, pollCount, handle, strayTimers, aborted, calls, mutex, now, hist>>

\* The 5 s timer fires: gasTimeout resolves with { gas: null }
gasTimeoutFires ==
    /\ arg.fn = "timedoutGasReturn" /\ ret # NoCall /\ ret.gasTimeout = "armed"
    /\ ret' = resolve([ret EXCEPT !.gasTimeout = "fired"], Null)
    /\ arg' = arg
    /\ UNCHANGED <<state, pollCount, handle, strayTimers, aborted, calls, mutex, now, hist>>

UtilCalls ==
    GetMedianCalls \cup CalculateGasEstimateWithRefundCalls \cup TimedoutGasReturnCalls

InitUtil ==
    /\ ControllerInit(FALSE)
    /\ arg \in UtilCalls
    /\ ret = NoCall

NextUtil ==
    \/ getMedianReturns
    \/ calculateGasEstimateWithRefundReturns
    \/ timedoutGasReturnCalled
    \/ \E gas \in GasEstimates : estimateGasResolves(gas)
    \/ estimateGasRejects
    \/ gasTimeoutFires

\* The helper functions, each called once with arguments of the sets above
SpecUtil == InitUtil /\ [][NextUtil]_vars

InitEval ==
    /\ ControllerInit(FALSE)
    /\ arg \in GetAllQuotesWithGasEstimatesCalls \cup GetBestQuoteAndQuotesValuesCalls
                \cup CalculateSavingsCalls
    /\ ret = NoCall

NextEval ==
    \/ getAllQuotesWithGasEstimatesReturns
    \/ getBestQuoteAndQuotesValuesReturns
    \/ calculateSavingsReturns

\* The gas annotation, the quote evaluator and the savings calculator, each called once
SpecEval == InitEval /\ [][NextEval]_vars

----------------------------------------------------------------------------
(* Claims *)

\* C1: when a later-dispatched fetch cycle has committed while an earlier-dispatched one
\* was still in flight, the earlier cycle's result is discarded: a call that a later call
\* has overtaken never performs the final update of quotes, topAggId, quotesLastFetched.
C1_StaleCycleDiscarded ==
    [][\A i \in 1..Len(calls) : calls[i].overtaken => ~CommitStep(i)]_vars

\* C2: a quote fetch that was in flight when stopPollingAndResetState was called never
\* commits its result (quotes, topAggId, quotesLastFetched, approvalTransaction), whatever
\* follows the stop, a new startFetchAndSetQuotes included.
C2_StoppedFetchNeverCommits ==
    [][\A i \in 1..Len(calls) : calls[i].stopped => ~CommitStep(i)]_vars

\* C3: in a session started by startFetchAndSetQuotes in which no cycle fails, at most
\* pollCountLimit cycles are dispatched by the scheduler; once the poll timer has fired
\* after the pollCountLimit-th cycle, exactly pollCountLimit cycles were dispatched,
\* errorKey is QUOTES_EXPIRED_ERROR and isInPolling is false; and from then on no quote
\* fetch is dispatched until the next startFetchAndSetQuotes.
C3_SessionExpiresAfterLimit ==
    [][ /\ (CleanSession => hist.cycles <= pollCountLimit)'
        /\ (CleanSession /\ hist.expired =>
                /\ hist.cycles = pollCountLimit
                /\ state.errorKey = QUOTES_EXPIRED_ERROR
                /\ ~state.isInPolling)'
        /\ (CleanSession /\ hist.expired /\ hist'.expired => Len(calls') <= Len(calls)) ]_vars

C3_Witness ==
    /\ CleanSession /\ hist.expired /\ hist.cycles = pollCountLimit
    /\ state.errorKey = QUOTES_EXPIRED_ERROR /\ ~state.isInPolling

\* C4: when the pipeline of a fetch cycle fails, then when fetchAndSetQuotes returns
\* isInPolling is false and errorKey is the typed reason of that failure.
C4_FailureLeavesTypedError ==
    [][\A i \in 1..Len(calls) : \A e \in Thrown :
          fails(i, e) => (state'.errorKey = TypedReason(e) /\ ~state'.isInPolling)]_vars

\* C5: when the service yields no usable quote (an empty list, or every entry dropped),
\* the cycle records errorKey = QUOTES_NOT_AVAILABLE_ERROR and polling halts.
C5_NoQuotesIsTyped ==
    [][\A i \in 1..Len(calls) : \A raw \in TradesResponses :
          (Len(fetchTradesInfo(raw)) = 0 /\ fetchTradesInfoResolves(i, raw))
             => (state'.errorKey = QUOTES_NOT_AVAILABLE_ERROR /\ ~state'.isInPolling)]_vars

\* C6: after a fetch cycle has failed, and until the next startFetchAndSetQuotes, no poll
\* timer is armed, no quote fetch is dispatched and the session state does not change.
C6_ErroredIsAbsorbing ==
    [][ /\ (hist.failed => PendingTimers = 0)'
        /\ (hist.failed /\ hist'.failed =>
                /\ Len(calls') <= Len(calls)
                /\ \A f \in SessionFields : state'[f] = state[f]) ]_vars

\* C7: startFetchAndSetQuotes with non-null fetchParams resets the poll count (cycle 1 is
\* then counted), leaves no poll timer pending, stores fetchParams, metadata and custom
\* gas price, sets isInPolling with pollingCyclesLeft = pollCountLimit - 1, and dispatches
\* cycle 1's quote fetch at once.
C7_StartBeginsCycleOne ==
    [][\A inp \in StartInputs :
          (inp.fetchParams # <<>> /\ startFetchAndSetQuotes(inp)) =>
             /\ pollCount' = 1
             /\ PendingTimers' = 0
             /\ state'.fetchParams = inp.fetchParams[1]
             /\ state'.fetchParamsMetaData = inp.fetchParamsMetaData
             /\ state'.customGasPrice = inp.customGasPrice
             /\ state'.isInPolling
             /\ state'.pollingCyclesLeft = pollCountLimit - 1
             /\ Len(calls') = Len(calls) + 1
             /\ calls'[Len(calls')].pc = "fetchTradesInfo"
             /\ calls'[Len(calls')].fetchParams = inp.fetchParams[1] ]_vars

\* C8: stopPollingAndResetState leaves no poll timer pending, sets the poll count past
\* pollCountLimit, resets every session field to its default and leaves tokens and
\* tokensLastFetched as they were.
C8_StopResetsSession ==
    [][stopPollingAndResetStateCalled =>
          /\ PendingTimers' = 0
          /\ pollCount' > pollCountLimit
          /\ \A f \in SessionFields \cup {"fetchParamsMetaData"} : state'[f] = defaultState[f]
          /\ state'.tokens = state.tokens
          /\ state'.tokensLastFetched = state.tokensLastFetched ]_vars

\* C9: safeRefetchQuotes dispatches a quote fetch only if no poll timer is pending when
\* it is called; when a poll timer is pending it dispatches nothing and changes no state.
C9_RefetchOnlyWithoutTimer ==
    [][safeRefetchQuotes =>
          /\ Len(calls') > Len(calls) => PendingTimers = 0
          /\ PendingTimers > 0 =>
                UNCHANGED <<state, pollCount, handle, strayTimers, aborted, calls>> ]_vars

C9_Witness ==
    /\ \E i \in 1..Len(calls) : ~calls[i].awaitedByPoll
    /\ PendingTimers = 0

\* C10: safeRefetchQuotes never dispatches a quote fetch while a fetch dispatched by the
\* scheduler is still in flight.
C10_RefetchNeverOverlapsPoll ==
    [][RefetchDispatches => ~(\E i \in 1..Len(calls) : calls[i].awaitedByPoll)]_vars


\* A fetchTokens network call begins: a caller takes the free lock, or is handed it
DispatchesFetchTokens ==
    /\ mutex'.locked
    /\ ~mutex.locked \/ mutex'.waiters < mutex.waiters

\* C11: of several callers of fetchTokenWithCache that found the cache stale, only one
\* makes the fetchTokens network call: a caller that is handed the lock after another
\* caller has refreshed the cache (the cache is fresh by then) makes no network call.
C11_ConcurrentCallersFetchOnce ==
    [][DispatchesFetchTokens =>
          (state'.tokens.isNull \/ fetchTokensThreshold < now' - state'.tokensLastFetched)]_vars

\* C12: a call of fetchTokenWithCache goes on to fetchTokens (takes the lock or waits for
\* it) only when state.tokens is null or tokensLastFetched is more than
\* fetchTokensThreshold ago; with a fresh cache it makes no network call and leaves
\* tokens and tokensLastFetched unchanged.
C12_FetchTokensOnlyWhenStale ==
    [][fetchTokenWithCache =>
          /\ mutex' # mutex =>
                (state.tokens.isNull \/ now - state.tokensLastFetched > fetchTokensThreshold)
          /\ ~(state.tokens.isNull \/ now - state.tokensLastFetched > fetchTokensThreshold) =>
                UNCHANGED <<state, mutex>> ]_vars

C12_Witness ==
    /\ mutex.locked
    /\ ~state.tokens.isNull
    /\ now - state.tokensLastFetched > fetchTokensThreshold

\* The number of elements of a sample that are below x, and that are x or below
Below(values, x) == Cardinality({ k \in 1..Len(values) : values[k] < x })
NotAbove(values, x) == Cardinality({ k \in 1..Len(values) : values[k] <= x })

\* x is the element at index k (from 1) of the sample in ascending order
IsRanked(values, x, k) ==
    /\ \E j \in 1..Len(values) : values[j] = x
    /\ Below(values, x) < k
    /\ k <= NotAbove(values, x)

\* C17: for a non-empty sample in any order, getMedian returns the middle element of the
\* sorted sample when the length is odd and the arithmetic mean of the two central
\* elements when it is even, and the array it was given is as it was.
C17_GetMedianIsMedian ==
    [][(getMedianReturns /\ arg.isArray /\ Len(arg.values) > 0) =>
          LET n == Len(arg.values)
          IN  /\ ret'.threw = <<>>
              /\ n % 2 = 1 => IsRanked(arg.values, ret'.value[1], (n + 1) \div 2)
              /\ n % 2 = 0 =>
                    \E lower, upper \in Decimals :
                        /\ IsRanked(arg.values, lower, n \div 2)
                        /\ IsRanked(arg.values, upper, (n \div 2) + 1)
                        /\ 2 * ret'.value[1] = lower + upper
              /\ arg'.values = arg.values ]_vars

C17_Witness ==
    /\ ret # NoCall /\ ret.fn = "getMedian" /\ ret.threw = <<>>
    /\ Len(arg.values) = 4 /\ arg.values[1] > arg.values[2]
    /\ ret.value[1] \notin { arg.values[k] : k \in 1..4 }

\* C18: getMedian called with an empty array, or with a value that is no array, throws
\* 'Expected non-empty array param.' and returns no value.
C18_GetMedianRejectsEmpty ==
    [][(getMedianReturns /\ (~arg.isArray \/ Len(arg.values) = 0)) =>
          /\ ret'.threw = << "Expected non-empty array param." >>
          /\ ret'.value = <<>> ]_vars

C18_Witness ==
    /\ ret # NoCall /\ ret.fn = "getMedian" /\ ret.threw # <<>>
    /\ arg.isArray /\ Len(arg.values) = 0

\* C19: calculateGasEstimateWithRefund returns the smaller of maxGas - estimatedRefund and
\* estimatedGas, where an undefined maxGas counts as 2,500,000 and an undefined
\* estimatedRefund or estimatedGas as 0.
C19_GasEstimateIsMinimum ==
    [][calculateGasEstimateWithRefundReturns =>
          LET maxGas == IF arg.maxGas = <<>> THEN 2500000 ELSE arg.maxGas[1]
              estimatedRefund == IF arg.estimatedRefund = <<>> THEN 0 ELSE arg.estimatedRefund[1]
              estimatedGas == IF arg.estimatedGas = <<>> THEN 0 ELSE arg.estimatedGas[1]
          IN  /\ ret'.value \in { maxGas - estimatedRefund, estimatedGas }
              /\ ret'.value <= maxGas - estimatedRefund
              /\ ret'.value <= estimatedGas ]_vars

C19_Witness ==
    /\ ret # NoCall /\ ret.fn = "calculateGasEstimateWithRefund"
    /\ arg.maxGas = <<>> /\ arg.estimatedRefund = << 2000000 >> /\ arg.estimatedGas = << 501000 >>
    /\ ret.value = 500000

\* The evaluator has returned from a call with a non-empty quote set
EvaluatorReturns == getBestQuoteAndQuotesValuesReturns /\ Len(arg.quotes) > 0

\* C13: for every non-empty quote set the evaluator returns a topAggId that is the
\* aggregator id of one of the quotes, whatever their values are.
C13_TopAggIdIsOfTheSet ==
    [][EvaluatorReturns =>
          \E k \in 1..Len(arg.quotes) : arg.quotes[k].aggregator = ret'.topAggId]_vars

\* The orders in which the quotes of a set may be supplied
Reorderings(quotes) ==
    { [k \in 1..Len(quotes) |-> quotes[p[k]]] :
        p \in { q \in [1..Len(quotes) -> 1..Len(quotes)] :
                  \A a, b \in 1..Len(quotes) : a # b => q[a] # q[b] } }

\* C14: the evaluator's topAggId is the same for every order in which the same quotes
\* are supplied, quotes of equal overall value included.
C14_TopAggIdIgnoresOrder ==
    [][EvaluatorReturns =>
          \A reordered \in Reorderings(arg.quotes) :
              getBestQuoteAndQuotesValues(
                  arg.state, reordered,
                  usedGasPrice(arg.customGasPrice, arg.ProposeGasPrice)).topAggId = ret'.topAggId]_vars

\* The gas price the evaluator under call uses
PriceUsed == usedGasPrice(arg.customGasPrice, arg.ProposeGasPrice)

\* The overall value of a quote of the evaluator under call, as the evaluator defines it
OverallValue(q) ==
    IF q.destinationToken = ETH_SWAPS_TOKEN_ADDRESS
    THEN ethValueOfTokens(arg.state, q) - ethFee(arg.state, q, PriceUsed)
    ELSE ethValueOfTokens(arg.state, q)

\* C15: the evaluator selects the quote whose overall value is greatest among all quotes
\* of the set, and among quotes tied for the greatest value the first in iteration order.
C15_GreatestValueFirstWins ==
    [][EvaluatorReturns =>
          \E k \in 1..Len(arg.quotes) :
              /\ arg.quotes[k].aggregator = ret'.topAggId
              /\ \A j \in 1..Len(arg.quotes) : OverallValue(arg.quotes[j]) <= OverallValue(arg.quotes[k])
              /\ \A j \in 1..(k - 1) : OverallValue(arg.quotes[j]) < OverallValue(arg.quotes[k]) ]_vars

\* x is the median of the series: the middle element, or the mean of the two central ones
IsMedian(values, x) ==
    LET n == Len(values)
    IN  IF n % 2 = 1 THEN IsRanked(values, x, (n + 1) \div 2)
        ELSE \E lower, upper \in { values[k] : k \in 1..n } :
                 /\ IsRanked(values, lower, n \div 2)
                 /\ IsRanked(values, upper, (n \div 2) + 1)
                 /\ 2 * x = lower + upper

\* C16: calculateSavings returns total = performance + fee - metaMaskFeeInEth(best), with
\* performance = ethValueOfTokens(best) - median(ethValueOfTokens of all quotes) and
\* fee = median(ethFee of all quotes) - ethFee(best), best being the quote it is called with.
C16_SavingsDecomposition ==
    [][calculateSavingsReturns =>
          LET best == arg.quoteValues[CHOOSE k \in 1..Len(arg.quoteValues) :
                                         arg.quoteValues[k].aggregator = arg.quote.aggregator]
              valueSeries == [k \in 1..Len(arg.quoteValues) |-> arg.quoteValues[k].ethValueOfTokens]
              feeSeries == [k \in 1..Len(arg.quoteValues) |-> arg.quoteValues[k].ethFee]
          IN  /\ ret'.total = ret'.performance + ret'.fee - best.metaMaskFeeInEth
              /\ IsMedian(valueSeries, best.ethValueOfTokens - ret'.performance)
              /\ IsMedian(feeSeries, ret'.fee + best.ethFee) ]_vars

C16_Witness ==
    /\ ret # NoCall /\ ret.fn = "calculateSavings"
    /\ Len(arg.quoteValues) = 2
    /\ ret.performance > 0 /\ ret.fee < 0 /\ ret.total # ret.performance + ret.fee

\* The promise timedoutGasReturn returned is still pending
GasPending == ret # NoCall /\ ret.pc = "pending"

\* C20: timedoutGasReturn resolves to { gas: null } when the skeleton is null, when
\* estimateGas fails and when the timer fires before estimateGas has answered; it
\* resolves to the estimate when estimateGas answers first; it never rejects, and once
\* resolved it keeps its value.
C20_GasReturnNeverRejects ==
    [][ /\ (timedoutGasReturnCalled /\ arg.tradeTxParams = <<>>) =>
               (ret'.pc = "resolved" /\ ret'.gas = Null)
        /\ (GasPending /\ estimateGasRejects) => (ret'.pc = "resolved" /\ ret'.gas = Null)
        /\ (GasPending /\ gasTimeoutFires) => (ret'.pc = "resolved" /\ ret'.gas = Null)
        /\ \A gas \in GasEstimates :
               (GasPending /\ estimateGasResolves(gas)) => (ret'.pc = "resolved" /\ ret'.gas = gas)
        /\ (arg.fn = "timedoutGasReturn" /\ ret # NoCall /\ ret.pc = "resolved") =>
               (ret'.pc = "resolved" /\ ret'.gas = ret.gas)
        /\ (arg.fn = "timedoutGasReturn" /\ ret' # NoCall) => ret'.pc # "rejected" ]_vars

C20_Witness ==
    /\ arg.fn = "timedoutGasReturn" /\ ret # NoCall
    /\ ret.pc = "resolved" /\ ret.gas = Null
    /\ ret.estimateGas = "rejected" /\ ret.gasTimeout = "fired"

\* C21: in a session in which approval is required, the approvalTransaction that cycle 1
\* attached to the state is still there, with the same gas, after every later cycle of
\* the session that commits.
C21_ApprovalKeptAcrossCycles ==
    [][\A i \in 1..Len(calls) :
          ( /\ CommitStep(i)
            /\ CleanSession /\ hist.cycles >= 2 /\ Len(calls) = 1
            /\ state.approvalTransaction # <<>> )
          => state'.approvalTransaction = state.approvalTransaction ]_vars

\* C22: a failure inside the pipeline is not propagated to the caller: the call of
\* fetchAndSetQuotes returns, and the failure ends as an errorKey value (one of the
\* SwapsError values) in the state.
C22_FailureEndsAsErrorKey ==
    [][\A i \in 1..Len(calls) : \A e \in Thrown :
          fails(i, e) => (Len(calls') = Len(calls) - 1 /\ state'.errorKey \in SwapsError)]_vars

\* C23: every dispatched fetch cycle finishes and the orchestrator is not left with
\* isInFetch = true: once no call of fetchAndSetQuotes is in flight any more, isInFetch
\* is false.
C23_NoFetchLeftPending ==
    Len(calls) = 0 => ~state.isInFetch

\* A quote that the evaluator may be given: with a trade and without an error
Tradable(quote) == quote.trade /\ ~quote.error

\* C24: every quote of the set fetchTradesInfo returned, and so every quote that is
\* evaluated or committed to the state, has a trade and no error.
C24_OnlyTradableQuotes ==
    /\ \A k \in 1..Len(state.quotes) : Tradable(state.quotes[k])
    /\ \A i \in 1..Len(calls) : \A k \in 1..Len(calls[i].quotes) : Tradable(calls[i].quotes[k])

C24_Witness ==
    /\ Len(state.quotes) = 2
    /\ \E i \in 1..Len(calls) : Len(calls[i].quotes) = 1

\* How many times a token address is in a list
Occurrences(list, address) == Cardinality({ k \in 1..Len(list) : list[k] = address })

\* C25: the list fetchTokens returns holds the native-asset token exactly once, whether
\* the remote list holds its address zero, one or several times, and holds every other
\* remote token as often as the remote list does.
C25_NativeTokenExactlyOnce ==
    [][\A tokens \in TokenResponses :
          fetchTokensResolves(tokens) =>
             /\ Occurrences(state'.tokens.list, ETH_SWAPS_TOKEN_ADDRESS) = 1
             /\ \A k \in 1..Len(tokens) :
                   tokens[k] # ETH_SWAPS_TOKEN_ADDRESS =>
                      Occurrences(state'.tokens.list, tokens[k]) = Occurrences(tokens, tokens[k])
             /\ Len(state'.tokens.list)
                   = Len(tokens) - Occurrences(tokens, ETH_SWAPS_TOKEN_ADDRESS) + 1 ]_vars

C25_Witness ==
    /\ ~state.tokens.isNull
    /\ Len(state.tokens.list) = 3
    /\ Occurrences(state.tokens.list, "0xusdc") = 1

\* The gas units the approval transaction of the evaluator's state asks for
ApprovalUnits ==
    IF arg.state.approvalTransaction = <<>> THEN 0
    ELSE hexToNumber(arg.state.approvalTransaction[1].gas)

\* The fee of quote q, in halves of 10^-18 ETH, when units of gas are paid for its trade
FeeWith(q, units) ==
    2 * ( (units + ApprovalUnits) * gasPriceInWei(PriceUsed) + hexToNumber(q.value)
          - (IF q.sourceToken = ETH_SWAPS_TOKEN_ADDRESS THEN q.sourceAmount ELSE 0) )

\* C26: a quote whose gas estimation returned null stays in the quote set, and its fee is
\* computed with its averageGas, or with 2,500,000 units when it has no averageGas; the
\* fee of a quote with a non-zero gasEstimateWithRefund is computed with that value.
C26_NullEstimateFallsBack ==
    [][ /\ getAllQuotesWithGasEstimatesReturns =>
              /\ Len(ret'.quotes) = Len(arg.trades)
              /\ \A k \in 1..Len(arg.trades) :
                    /\ ret'.quotes[k].aggregator = arg.trades[k].aggregator
                    /\ ret'.quotes[k].gasEstimate = arg.gases[k]
                    /\ arg.gases[k] = Null => ret'.quotes[k].gasEstimateWithRefund = NaN
        /\ EvaluatorReturns =>
              /\ Len(ret'.quoteValues) = Len(arg.quotes)
              /\ \A k \in 1..Len(arg.quotes) :
                    LET q == arg.quotes[k]
                    IN  ret'.quoteValues[k].ethFee =
                           IF q.gasEstimateWithRefund # NaN /\ q.gasEstimateWithRefund[1] # 0
                           THEN FeeWith(q, q.gasEstimateWithRefund[1])
                           ELSE IF q.averageGas # <<>> THEN FeeWith(q, q.averageGas[1])
                           ELSE FeeWith(q, 2500000) ]_vars

C26_Witness ==
    /\ ret # NoCall /\ ret.fn = "getBestQuoteAndQuotesValues"
    /\ Len(arg.quotes) = 2
    /\ arg.quotes[1].gasEstimateWithRefund = NaN /\ arg.quotes[1].averageGas # <<>>
    /\ ret.topAggId = arg.quotes[1].aggregator
    /\ ret.quoteValues[1].ethFee = FeeWith(arg.quotes[1], 30000)

\* C27: in a cycle that estimated the approval gas, the fee of every committed quote is
\* that of its trade gas units plus the approval gas units the cycle commits.
C27_FeeCountsApprovalGas ==
    [][\A i \in 1..Len(calls) :
          (CommitStep(i) /\ calls[i].approvalTransaction # <<>>) =>
              \A k \in 1..Len(state'.quotes) : \E ProposeGasPrice \in ProposeGasPrices :
                  state'.quoteValues[k].ethFee =
                      2 * ( ( tradeGasLimit(state'.quotes[k])
                              + hexToNumber(state'.approvalTransaction[1].gas) )
                            * gasPriceInWei(usedGasPrice(calls[i].customGasPrice, ProposeGasPrice))
                            + hexToNumber(state'.quotes[k].value) ) ]_vars

\* C28: the overall value the evaluator returns for a quote is its ethValueOfTokens less
\* its ethFee when the destination token is ETH, and its ethValueOfTokens for any other
\* destination token, with and without a conversion rate.
C28_FeeTakenOffForEthOnly ==
    [][EvaluatorReturns =>
          \A k \in 1..Len(arg.quotes) :
              LET q == arg.quotes[k]
                  value == ethValueOfTokens(arg.state, q)
                  fee == ethFee(arg.state, q, PriceUsed)
              IN  ret'.quoteValues[k].overallValueOfQuote =
                     IF q.destinationToken = ETH_SWAPS_TOKEN_ADDRESS
                     THEN toFixed18(value - fee) ELSE toFixed18(value) ]_vars

C28_Witness ==
    /\ ret # NoCall /\ ret.fn = "getBestQuoteAndQuotesValues"
    /\ Len(arg.quotes) = 2
    /\ arg.quotes[1].destinationToken = ETH_SWAPS_TOKEN_ADDRESS
    /\ arg.quotes[2].destinationToken = "0xdai"
    /\ arg.state.fetchParamsMetaData.destinationTokenConversionRate # <<>>
    /\ ret.quoteValues[1].ethFee > 0 /\ ret.quoteValues[2].ethFee > 0
    /\ ret.quoteValues[1].overallValueOfQuote < ret.quoteValues[1].ethValueOfTokens
    /\ ret.quoteValues[2].overallValueOfQuote = ret.quoteValues[2].ethValueOfTokens

\* C29: a quote whose total cost is negative is left out of the ranking: the evaluator
\* never returns its aggregator as topAggId.
C29_NegativeCostLeftOut ==
    [][EvaluatorReturns =>
          \A k \in 1..Len(arg.quotes) :
              ethFee(arg.state, arg.quotes[k], PriceUsed) < 0
                  => ret'.topAggId # arg.quotes[k].aggregator ]_vars

\* This step is taken by a poll timer, or by a quote fetch that was in flight when
\* stopPollingAndResetState was called
StoppedSessionStep ==
    \/ \E stray \in BOOLEAN : pollTimerFires(stray)
    \/ \E i \in 1..Len(calls) :
          /\ calls[i].stopped
          /\ \/ fetchTradesInfoRejects(i)
             \/ \E raw \in TradesResponses : fetchTradesInfoResolves(i, raw)
             \/ \E result \in {"reject", "0", "1"} : getERC20AllowanceReturns(i, result)
             \/ \E gas \in {Null, "0x5208"}, gasPriceOk \in BOOLEAN :
                  \E gases \in GasVectors(calls[i].quotes), ProposeGasPrice \in ProposeGasPrices :
                     quotesEvaluated(i, gas, gases, ProposeGasPrice, gasPriceOk)

\* C30: after stopPollingAndResetState and until the next startFetchAndSetQuotes, no poll
\* timer and no quote fetch of the stopped session sets errorKey, changes
\* pollingCyclesLeft or arms a poll timer.
C30_StoppedSessionStaysReset ==
    [][(hist.stopped /\ hist'.stopped /\ StoppedSessionStep) =>
          /\ state'.errorKey = state.errorKey
          /\ state'.pollingCyclesLeft = state.pollingCyclesLeft
          /\ PendingTimers' <= PendingTimers ]_vars

\* C31: a failure of a fetch cycle that was dispatched before the most recent
\* startFetchAndSetQuotes leaves the new session as it is: errorKey, fetchParams, quotes
\* and isInPolling are after the failure what they were before it.
C31_OldFailureSparesNewSession ==
    [][\A i \in 1..Len(calls) : \A e \in Thrown :
          (calls[i].superseded /\ CleanSession /\ state.isInPolling /\ fails(i, e)) =>
              /\ state'.errorKey = state.errorKey
              /\ state'.fetchParams = state.fetchParams
              /\ state'.quotes = state.quotes
              /\ state'.isInPolling = state.isInPolling ]_vars

\* C32: when the fetch params of a session are set, no poll timer is pending (the last
\* one has fired or was cancelled) and no quote fetch is in flight, the guard of
\* safeRefetchQuotes holds: a call of it dispatches a quote fetch.
C32_RefetchAfterLastTimer ==
    ( /\ state.fetchParams # defaultState.fetchParams
      /\ PendingTimers = 0
      /\ Len(calls) = 0 )
    => mayRefetch(World)

C34_NoErrorWhilePolling ==
    (hist.started /\ state.isInPolling) => state.errorKey \notin SwapsError

\* C35: at any time at most one poll timer is pending, also when startFetchAndSetQuotes
\* was called while a cycle of the previous session was in flight.
C35_AtMostOnePollTimer ==
    PendingTimers <= 1

\* C36: isInFetch is true only while a quote fetch is in flight: when the last call of
\* fetchAndSetQuotes in flight completes, by commit, by failure or with its result
\* discarded, isInFetch is false.
C36_LastCompletionClearsIsInFetch ==
    [][(Len(calls) = 1 /\ Len(calls') = 0) => ~state'.isInFetch]_vars

\* C37: whenever isInPolling is true, pollingCyclesLeft is pollCountLimit minus the poll
\* count and lies between 0 and pollCountLimit - 1; pollingCyclesLeft is never negative.
C37_CyclesLeftTracksPollCount ==
    /\ state.isInPolling =>
          /\ state.pollingCyclesLeft = pollCountLimit - pollCount
          /\ 0 <= state.pollingCyclesLeft
          /\ state.pollingCyclesLeft <= pollCountLimit - 1
    /\ state.pollingCyclesLeft >= 0

C37_Witness ==
    /\ state.isInPolling /\ pollCount = pollCountLimit
    /\ state.pollingCyclesLeft = 0
    /\ Len(calls) = 1 /\ calls[1].awaitedByPoll

\* C38: a topAggId that is set (neither null nor undefined) is the key of a quote of
\* state.quotes: no cycle commits a best-aggregator id without that aggregator's quote.
C38_TopAggIdHasItsQuote ==
    state.topAggId \notin { Null, Undefined } => hasQuote(state.quotes, state.topAggId)

C38_Witness ==
    /\ Len(state.quotes) = 2
    /\ state.topAggId = state.quotes[2].aggregator
    /\ hist.cycles >= 2

\* C39: fetchTokenWithCache always releases the token-cache lock, also when fetchTokens
\* fails: the lock is held only while its holder's fetchTokens call is pending, a call
\* that settles hands the lock to the caller that waits or frees it, and a call of
\* fetchTokenWithCache on a stale cache that finds the lock free runs its refresh.
C39_LockAlwaysReleased ==
    [][ /\ (mutex.locked <=> mutex.fetching)'
        /\ (fetchTokensRejects \/ \E tokens \in TokenResponses : fetchTokensResolves(tokens)) =>
               IF mutex.waiters > 0
               THEN mutex'.locked /\ mutex'.waiters = mutex.waiters - 1
               ELSE ~mutex'.locked
        /\ (fetchTokenWithCache /\ mustFetchTokens(state, now) /\ ~mutex.locked) =>
               mutex'.fetching ]_vars

C39_Witness ==
    /\ hist.fetchTokensFailed
    /\ ~mutex.locked /\ mutex.waiters = 0
    /\ state.tokens.isNull

====
